---- MODULE Spec2Model ----
(***************************************************************************)
(* A model of the connector-configuration schema parser                    *)
(* (src/src/helpers/connectorConfig/specParser.tsx) and, further down, of  *)
(* the list of running deployments of the Flows list                       *)
(* (src/unnamed/part_000), each with a specification of its own (Spec,     *)
(* SpecFlows).                                                             *)
(*                                                                         *)
(* parseAirbyteSpec is a synchronous pure function, so the state machine   *)
(* is small: a schema is drawn in Init, one action runs the parser on it   *)
(* and stores the groups it returns.  The parser itself is a set of        *)
(* operators that follow the TypeScript functions one by one.              *)
(*                                                                         *)
(* Representation of JavaScript values:                                    *)
(*   - an optional value is None (undefined) or Some(v);                   *)
(*   - an object used as an ordered mapping (properties) is the sequence   *)
(*     of its Object.entries, [key, prop] records in insertion order (the  *)
(*     keys of the model are never integer-like, so insertion order is     *)
(*     the enumeration order);                                             *)
(*   - a string is a TLA+ string, joined with \o as the template literals  *)
(*     and Array.prototype.join do.                                        *)
(***************************************************************************)
EXTENDS Integers, Sequences, FiniteSets, TLC

VARIABLES spec, out, pc,
          runningDeploymentIds, actionsProps, inFlight, lock, tempSyncState

parserVars == <<spec, out, pc>>

flowVars == <<runningDeploymentIds, actionsProps, inFlight, lock, tempSyncState>>

vars == <<spec, out, pc, runningDeploymentIds, actionsProps, inFlight, lock, tempSyncState>>

None == <<>>

Some(v) == <<v>>

\* JavaScript truthiness of an optional string: undefined and "" are falsy.
Truthy(o) == o # None /\ o # Some("")

\* JavaScript  o || d  for an optional string o and a string d.
OrElse(o, d) == IF Truthy(o) THEN o[1] ELSE d

\* Array.isArray(r) ? r : []   and   r || []   for an optional list of names,
\* kept as a set because the code only ever calls includes() on it.
RequiredOf(r) == IF r = None THEN {} ELSE r[1]

RECURSIVE Join(_)
\* path.join('.')
Join(path) == IF Len(path) = 0 THEN "" ELSE IF Len(path) = 1 THEN path[1] ELSE path[1] \o "." \o Join(Tail(path))

RECURSIVE Concat(_)
\* flattening of a sequence of sequences (fields.push(...list))
Concat(ss) == IF Len(ss) = 0 THEN <<>> ELSE Head(ss) \o Concat(Tail(ss))

(***************************************************************************)
(* String.prototype.localeCompare on the field names of the model.  The    *)
(* names the model uses are listed in their collation order; the result    *)
(* is negative, zero or positive as in JavaScript.                         *)
(***************************************************************************)
Collation == <<"dbname", "host", "mode", "password", "port", "ssl_mode", "token">>

CollationRank(s) == CHOOSE i \in 1..Len(Collation) : Collation[i] = s

localeCompare(s, t) == IF CollationRank(s) < CollationRank(t) THEN -1 ELSE IF CollationRank(s) > CollationRank(t) THEN 1 ELSE 0

\* a.path[a.path.length - 1] || ''
FieldName(f) == f.path[Len(f.path)]

\* compareAirbyteRules with  a.order  tested for truthiness instead of against
\* undefined: an order of 0 is taken for no order.
compareAirbyteRulesTruthyOrder(a, b) ==
    LET has(f) == f.order # None /\ f.order # Some(0)
    IN  IF has(a) /\ has(b) THEN a.order[1] - b.order[1]
        ELSE IF has(a) /\ ~has(b) THEN -1
        ELSE IF ~has(a) /\ has(b) THEN 1
        ELSE IF a.required /\ ~b.required THEN -1
        ELSE IF ~a.required /\ b.required THEN 1
        ELSE localeCompare(FieldName(a), FieldName(b))

(***************************************************************************)
(* The comparator of sortFieldsByAirbyteRules.                             *)
(***************************************************************************)
compareAirbyteRules(a, b) ==
    IF a.order # None /\ b.order # None THEN a.order[1] - b.order[1]
    ELSE IF a.order # None /\ b.order = None THEN -1
    ELSE IF a.order = None /\ b.order # None THEN 1
    ELSE IF a.required /\ ~b.required THEN -1
    ELSE IF ~a.required /\ b.required THEN 1
    ELSE localeCompare(FieldName(a), FieldName(b))

(***************************************************************************)
(* The comparator of sortOneOfSubFields: 0 across parent values, the       *)
(* rules above within one parent value.                                    *)
(***************************************************************************)
compareOneOfSubFields(a, b) ==
    IF a.parentValue # b.parentValue THEN 0 ELSE compareAirbyteRules(a, b)

Compare(cmp, a, b) ==
    IF cmp = "oneOf" THEN compareOneOfSubFields(a, b) ELSE compareAirbyteRules(a, b)

(***************************************************************************)
(* Array.prototype.sort as the runtime of the build (Node, V8) runs it on  *)
(* arrays shorter than 64 elements: the leading run is counted and, when   *)
(* strictly descending, reversed; every later element is then placed by a  *)
(* binary insertion.  With a consistent comparator this is any stable      *)
(* sort; with an inconsistent one the result is what this procedure does.  *)
(***************************************************************************)
RECURSIVE CountRun(_, _, _, _)
CountRun(arr, cmp, desc, idx) ==
    IF idx > Len(arr) THEN idx - 1
    ELSE LET order == Compare(cmp, arr[idx], arr[idx - 1])
         IN  IF (desc /\ order >= 0) \/ (~desc /\ order < 0)
             THEN idx - 1
             ELSE CountRun(arr, cmp, desc, idx + 1)

Reverse(s) ==
    [i \in 1..Len(s) |-> s[Len(s) + 1 - i]]

RECURSIVE BinarySearch(_, _, _, _, _)
BinarySearch(arr, cmp, pivot, left, right) ==
    IF left >= right THEN left
    ELSE LET mid == left + ((right - left) \div 2)
         IN  IF Compare(cmp, pivot, arr[mid]) < 0
             THEN BinarySearch(arr, cmp, pivot, left, mid)
             ELSE BinarySearch(arr, cmp, pivot, mid + 1, right)

\* arr with the element at index from moved down to index to (to <= from).
InsertAt(arr, from, to) ==
    [i \in 1..Len(arr) |->
        IF i < to \/ i > from THEN arr[i]
        ELSE IF i = to THEN arr[from]
        ELSE arr[i - 1]]

RECURSIVE BinaryInsertionSort(_, _, _)
BinaryInsertionSort(arr, cmp, start) ==
    IF start > Len(arr) THEN arr
    ELSE BinaryInsertionSort(
             InsertAt(arr, start, BinarySearch(arr, cmp, arr[start], 1, start)),
             cmp, start + 1)

ArraySort(arr, cmp) ==
    IF Len(arr) < 2 THEN arr
    ELSE LET desc == Compare(cmp, arr[2], arr[1]) < 0
             run  == CountRun(arr, cmp, desc, 3)
             made == IF desc
                     THEN Reverse(SubSeq(arr, 1, run)) \o SubSeq(arr, run + 1, Len(arr))
                     ELSE arr
         IN  BinaryInsertionSort(made, cmp, run + 1)

sortFieldsByAirbyteRules(fields) ==
    ArraySort(fields, "airbyte")

sortOneOfSubFields(subFields) ==
    ArraySort(subFields, "oneOf")

(***************************************************************************)
(* The parser.  A FormField is a record with the same fields for every     *)
(* kind of node; the fields a kind does not set are None.  The attributes  *)
(* parseBasicField only copies from the property to the field (secret,     *)
(* examples, pattern, enum, format, minimum, maximum, ...) take no part in *)
(* ordering, identity or structure and are left out of the record.         *)
(***************************************************************************)
parseBasicField(key, prop, path, isRequired) ==
    [ id           |-> Join(path),
      type         |-> prop.type,
      path         |-> path,
      title        |-> OrElse(prop.title, key),
      required     |-> isRequired,
      hidden       |-> prop.airbyte_hidden,
      order        |-> prop.order,
      group        |-> prop.group,
      parentValue  |-> None,
      constOptions |-> None,
      constKey     |-> None,
      itemType     |-> None,
      subFields    |-> None ]

\* Object.entries(option.properties).find(([_, p]) => p.const): the index of
\* the first entry whose const is truthy, 0 when there is none.
FindConst(entries) ==
    IF \E i \in 1..Len(entries) : Truthy(entries[i].prop.const)
    THEN CHOOSE i \in 1..Len(entries) :
            /\ Truthy(entries[i].prop.const)
            /\ \A j \in 1..(i - 1) : ~Truthy(entries[j].prop.const)
    ELSE 0

RECURSIVE parseProperties(_, _, _)
RECURSIVE parseOneOfField(_, _, _, _)
RECURSIVE parseArrayField(_, _, _, _)
RECURSIVE OptionSubFields(_, _, _)

\* OptionSubFields without the assignment of line 219: a sub-field keeps the
\* id its path gives it.
OptionSubFieldsPathId(option, path, ci) ==
    LET entries        == option.properties[1]
        fieldConstKey  == entries[ci].key
        constValue     == entries[ci].prop.const[1]
        optionRequired == RequiredOf(option.required)
        sub(e) ==
            LET subFieldPath == Append(path, e.key)
                subField ==
                    IF e.prop.oneOf # None
                    THEN parseOneOfField(e.key, e.prop, subFieldPath, e.key \in optionRequired)
                    ELSE parseBasicField(e.key, e.prop, subFieldPath, e.key \in optionRequired)
            IN  [subField EXCEPT !.parentValue = Some(constValue)]
        kept == SelectSeq(entries, LAMBDA e : e.key # fieldConstKey)
    IN  [i \in 1..Len(kept) |-> sub(kept[i])]

\* The body of the loop over one variant's properties (lines 189-222): the
\* sub-fields of the variant whose discriminant is the entry at index ci.
OptionSubFields(option, path, ci) ==
    LET entries       == option.properties[1]
        fieldConstKey == entries[ci].key
        constValue    == entries[ci].prop.const[1]
        optionRequired == RequiredOf(option.required)
        sub(e) ==
            LET subFieldPath == Append(path, e.key)
                subField ==
                    IF e.prop.oneOf # None
                    THEN parseOneOfField(e.key, e.prop, subFieldPath, e.key \in optionRequired)
                    ELSE parseBasicField(e.key, e.prop, subFieldPath, e.key \in optionRequired)
            IN  [subField EXCEPT !.parentValue = Some(constValue),
                                 !.id = Join(path) \o "." \o constValue \o "." \o e.key]
        kept == SelectSeq(entries, LAMBDA e : e.key # fieldConstKey)
    IN  [i \in 1..Len(kept) |-> sub(kept[i])]

RECURSIVE OneOfLoopFirstValue(_, _, _, _)
\* OneOfLoop with the discriminant value kept from the first variant that has
\* one, the way constKey is: every sub-field is tagged with that value.
OneOfLoopFirstValue(options, path, i, acc) ==
    IF i > Len(options) THEN acc
    ELSE LET option == options[i]
             ci     == FindConst(option.properties[1])
         IN  IF ci = 0 THEN OneOfLoopFirstValue(options, path, i + 1, acc)
             ELSE LET constValue == option.properties[1][ci].prop.const[1]
                      first == IF acc.constOptions = <<>> THEN constValue
                               ELSE acc.constOptions[1].value
                      subs  == OptionSubFields(option, path, ci)
                  IN  OneOfLoopFirstValue(options, path, i + 1,
                        [ constKey     |-> IF acc.constKey = None
                                           THEN Some(option.properties[1][ci].key)
                                           ELSE acc.constKey,
                          constOptions |-> Append(acc.constOptions,
                                             [ value       |-> constValue,
                                               title       |-> OrElse(option.title, constValue),
                                               description |-> option.description ]),
                          subFields    |-> acc.subFields \o
                                             [k \in 1..Len(subs) |->
                                                [subs[k] EXCEPT !.parentValue = Some(first)]] ])

\* One pass of prop.oneOf.forEach (lines 158-224) over the variants from
\* index i on, threading subFields, constOptions and constKey.
RECURSIVE OneOfLoop(_, _, _, _)
OneOfLoop(options, path, i, acc) ==
    IF i > Len(options) THEN acc
    ELSE LET option == options[i]
             ci     == FindConst(option.properties[1])
         IN  IF ci = 0 THEN OneOfLoop(options, path, i + 1, acc)
             ELSE LET constValue == option.properties[1][ci].prop.const[1]
                  IN  OneOfLoop(options, path, i + 1,
                        [ constKey     |-> IF acc.constKey = None
                                           THEN Some(option.properties[1][ci].key)
                                           ELSE acc.constKey,
                          constOptions |-> Append(acc.constOptions,
                                             [ value       |-> constValue,
                                               title       |-> OrElse(option.title, constValue),
                                               description |-> option.description ]),
                          subFields    |-> acc.subFields \o OptionSubFields(option, path, ci) ])

\* The sub-fields of a oneOf property as collected, before they are sorted.
CollectOneOf(prop, path) ==
    OneOfLoop(IF prop.oneOf = None THEN <<>> ELSE prop.oneOf[1], path, 1,
              [constKey |-> None, constOptions |-> <<>>, subFields |-> <<>>])

parseOneOfField(key, prop, path, isRequired) ==
    LET c == CollectOneOf(prop, path)
    IN  [ id           |-> Join(path),
          type         |-> "object",
          path         |-> path,
          title        |-> OrElse(prop.title, key),
          required     |-> isRequired,
          hidden       |-> prop.airbyte_hidden,
          order        |-> prop.order,
          group        |-> prop.group,
          parentValue  |-> None,
          constOptions |-> Some(c.constOptions),
          constKey     |-> c.constKey,
          itemType     |-> None,
          subFields    |-> Some(sortOneOfSubFields(c.subFields)) ]

parseArrayField(key, prop, path, isRequired) ==
    LET items == IF prop.items = None THEN None ELSE prop.items[1]
        subFields ==
            IF prop.items # None /\ items.type = "object" /\ items.properties # None
            THEN sortFieldsByAirbyteRules(
                     parseProperties(items.properties[1], Append(path, "0"),
                                     RequiredOf(items.required)))
            ELSE <<>>
    IN  [ id           |-> Join(path),
          type         |-> "array",
          path         |-> path,
          title        |-> OrElse(prop.title, key),
          required     |-> isRequired,
          hidden       |-> prop.airbyte_hidden,
          order        |-> prop.order,
          group        |-> prop.group,
          parentValue  |-> None,
          constOptions |-> None,
          constKey     |-> None,
          itemType     |-> Some(IF prop.items # None /\ items.type # "" THEN items.type ELSE "string"),
          subFields    |-> Some(subFields) ]

RECURSIVE ParseEntry(_, _, _)

\* ParseEntry with the object rule tried before the oneOf rule, and the
\* children of an object marked required by the list of the level above.
ParseEntryObjectFirst(e, parentPath, required) ==
    LET path == Append(parentPath, e.key)
    IN  IF e.prop.airbyte_hidden THEN <<>>
        ELSE IF e.prop.type = "object" /\ e.prop.properties # None
             THEN parseProperties(e.prop.properties[1], path, required)
        ELSE IF e.prop.oneOf # None
             THEN <<parseOneOfField(e.key, e.prop, path, e.key \in required)>>
        ELSE IF e.prop.type = "array" /\ e.prop.items # None
             THEN <<parseArrayField(e.key, e.prop, path, e.key \in required)>>
        ELSE <<parseBasicField(e.key, e.prop, path, e.key \in required)>>

\* The fields one entry of the mapping contributes (the body of the loop of
\* parseProperties, lines 117-143).
ParseEntry(e, parentPath, required) ==
    LET path == Append(parentPath, e.key)
    IN  IF e.prop.airbyte_hidden THEN <<>>
        ELSE IF e.prop.oneOf # None
             THEN <<parseOneOfField(e.key, e.prop, path, e.key \in required)>>
        ELSE IF e.prop.type = "array" /\ e.prop.items # None
             THEN <<parseArrayField(e.key, e.prop, path, e.key \in required)>>
        ELSE IF e.prop.type = "object" /\ e.prop.properties # None
             THEN parseProperties(e.prop.properties[1], path, RequiredOf(e.prop.required))
        ELSE <<parseBasicField(e.key, e.prop, path, e.key \in required)>>

parseProperties(properties, parentPath, required) ==
    Concat([i \in 1..Len(properties) |-> ParseEntry(properties[i], parentPath, required)])

\* parseAirbyteSpec with the first declared group taken as a catch-all for
\* the fields no declared group claims.
parseAirbyteSpecCatchAll(s) ==
    LET allFields == parseProperties(s.properties[1], <<>>, RequiredOf(s.required))
        declared  == {Some(s.groups[1][g].id) : g \in 1..Len(s.groups[1])}
    IN  IF s.groups = None
        THEN << [ id |-> "default", title |-> None,
                  fields |-> sortFieldsByAirbyteRules(allFields) ] >>
        ELSE [ g \in 1..Len(s.groups[1]) |->
                 [ id     |-> s.groups[1][g].id,
                   title  |-> s.groups[1][g].title,
                   fields |-> sortFieldsByAirbyteRules(
                                SelectSeq(allFields,
                                    LAMBDA f : \/ f.group = Some(s.groups[1][g].id)
                                               \/ (g = 1 /\ f.group \notin declared))) ] ]

\* parseAirbyteSpec without the sort of line 93: the default group holds the
\* fields in traversal order.
parseAirbyteSpecUnsortedDefault(s) ==
    LET allFields == parseProperties(s.properties[1], <<>>, RequiredOf(s.required))
    IN  IF s.groups = None
        THEN << [ id |-> "default", title |-> None, fields |-> allFields ] >>
        ELSE [ g \in 1..Len(s.groups[1]) |->
                 [ id     |-> s.groups[1][g].id,
                   title  |-> s.groups[1][g].title,
                   fields |-> sortFieldsByAirbyteRules(
                                SelectSeq(allFields,
                                    LAMBDA f : f.group = Some(s.groups[1][g].id))) ] ]

(***************************************************************************)
(* parseAirbyteSpec: the list of groups returned for a schema.             *)
(***************************************************************************)
parseAirbyteSpec(s) ==
    LET allFields == parseProperties(s.properties[1], <<>>, RequiredOf(s.required))
    IN  IF s.groups = None
        THEN << [ id |-> "default", title |-> None,
                  fields |-> sortFieldsByAirbyteRules(allFields) ] >>
        ELSE [ g \in 1..Len(s.groups[1]) |->
                 [ id     |-> s.groups[1][g].id,
                   title  |-> s.groups[1][g].title,
                   fields |-> sortFieldsByAirbyteRules(
                                SelectSeq(allFields,
                                    LAMBDA f : f.group = Some(s.groups[1][g].id))) ] ]

(***************************************************************************)
(* Exceptions.  The parser has no try/catch, so a TypeError thrown at any  *)
(* depth ends parseAirbyteSpec without a result.  The two places that can  *)
(* throw on the schemas of the model are the two calls of Object.entries   *)
(* on a mapping that may be undefined: the one of parseProperties (line    *)
(* 117) and the one of parseOneOfField (line 164).  The operators below    *)
(* follow the traversal and tell whether it reaches such a call.           *)
(***************************************************************************)
RECURSIVE parsePropertiesThrows(_)
RECURSIVE parseOneOfFieldThrows(_)

\* parseOneOfField: some variant has no properties mapping, or the union of
\* a property of a variant with a discriminant throws.
parseOneOfFieldThrows(prop) ==
    \E i \in 1..Len(prop.oneOf[1]) :
        LET option == prop.oneOf[1][i]
        IN  \/ option.properties = None
            \/ /\ FindConst(option.properties[1]) # 0
               /\ \E k \in 1..Len(option.properties[1]) :
                     LET e == option.properties[1][k]
                     IN  /\ k # FindConst(option.properties[1])
                         /\ e.prop.oneOf # None
                         /\ parseOneOfFieldThrows(e.prop)

\* parseArrayField: only the traversal of the item properties can throw.
parseArrayFieldThrows(prop) ==
    /\ prop.items[1].type = "object"
    /\ prop.items[1].properties # None
    /\ parsePropertiesThrows(prop.items[1].properties)

\* parseProperties on a mapping that is undefined (None) or present.
parsePropertiesThrows(properties) ==
    \/ properties = None
    \/ \E i \in 1..Len(properties[1]) :
          LET prop == properties[1][i].prop
          IN  IF prop.airbyte_hidden THEN FALSE
              ELSE IF prop.oneOf # None THEN parseOneOfFieldThrows(prop)
              ELSE IF prop.type = "array" /\ prop.items # None
                   THEN parseArrayFieldThrows(prop)
              ELSE IF prop.type = "object" /\ prop.properties # None
                   THEN parsePropertiesThrows(prop.properties)
              ELSE FALSE

parseAirbyteSpecThrows(s) ==
    parsePropertiesThrows(s.properties)

(***************************************************************************)
(* Schemas.  A property carries every attribute the parser reads; the      *)
(* constructors below set the ones that differ from an untitled, visible,  *)
(* unordered, ungrouped string property.                                   *)
(***************************************************************************)
BaseProp ==
    [ type |-> "string", title |-> None, description |-> None,
      airbyte_hidden |-> FALSE, order |-> None, group |-> None, const |-> None,
      oneOf |-> None, items |-> None, properties |-> None, required |-> None ]

Entry(k, p) ==
    [key |-> k, prop |-> p]

Leaf(o, h, g) ==
    [BaseProp EXCEPT !.order = o, !.airbyte_hidden = h, !.group = g]

ConstProp(v, h) ==
    [BaseProp EXCEPT !.const = Some(v), !.airbyte_hidden = h]

ObjectProp(props, req, h) ==
    [BaseProp EXCEPT !.type = "object", !.properties = Some(props),
                     !.required = req, !.airbyte_hidden = h]

ArrayProp(items, h) ==
    [BaseProp EXCEPT !.type = "array", !.items = items, !.airbyte_hidden = h]

ObjectItems(props, req) ==
    [type |-> "object", properties |-> Some(props), required |-> req]

PrimitiveItems(t) ==
    [type |-> t, properties |-> None, required |-> None]

OneOfProp(options, h) ==
    [BaseProp EXCEPT !.type = "object", !.oneOf = Some(options), !.airbyte_hidden = h]

Variant(props, req) ==
    [title |-> None, description |-> None, properties |-> Some(props), required |-> req]

Schema(props, req, groups) ==
    [properties |-> Some(props), required |-> req, groups |-> groups]

(***************************************************************************)
(* Bounds of the schemas drawn in Init.                                    *)
(***************************************************************************)
MaxOrder == 1

MaxVariants == 3

Orders ==
    {None} \cup {Some(n) : n \in 0..MaxOrder}

SeqsUpTo(S, n) ==
    UNION {[1..k -> S] : k \in 0..n}

\* Lists of leaf descriptions <<key, order, required>> with keys that differ,
\* as the entries of one mapping must: every choice and every declaration
\* order of the keys.
LeafLists(keys) ==
    {m \in SeqsUpTo(keys \X Orders \X BOOLEAN, Cardinality(keys)) :
        \A i, j \in 1..Len(m) : i # j => m[i][1] # m[j][1]}

LeafProps(m, g) ==
    [i \in 1..Len(m) |-> Entry(m[i][1], Leaf(m[i][2], FALSE, g))]

LeafRequired(m) ==
    Some({m[i][1] : i \in {j \in 1..Len(m) : m[j][3]}})

FlatKeys ==
    {"dbname", "host", "port"}

GroupA ==
    [id |-> "A", title |-> Some("Group A")]

GroupB ==
    [id |-> "B", title |-> None]

\* Flat schemas: leaves in any declaration order, with and without an order
\* and a required mark; no groups declared, or one group that holds them all.
OrderedSchema(s) ==
    \E m \in LeafLists(FlatKeys) :
        \/ s = Schema(LeafProps(m, None), LeafRequired(m), None)
        \/ s = Schema(LeafProps(m, Some("A")), LeafRequired(m), Some(<<GroupA>>))

GroupTags ==
    {None, Some("A"), Some("B"), Some("Z")}

GroupDecls ==
    {None, Some(<<>>), Some(<<GroupA>>), Some(<<GroupA, GroupB>>), Some(<<GroupB, GroupA>>)}

\* Flat schemas whose leaves carry group tags, declared or not.
GroupedSchema(s) ==
    \E ks \in {m \in SeqsUpTo(FlatKeys \X GroupTags, Cardinality(FlatKeys)) :
                  \A i, j \in 1..Len(m) : i # j => m[i][1] # m[j][1]} :
        \E gd \in GroupDecls :
            s = Schema([i \in 1..Len(ks) |-> Entry(ks[i][1], Leaf(None, FALSE, ks[i][2]))],
                       None, gd)

\* Arrays: of objects (any list of leaves as item properties), of primitives
\* and without an item schema.
ArraySchema(s) ==
    \/ \E m \in LeafLists(FlatKeys) :
          s = Schema(<<Entry("port", ArrayProp(Some(ObjectItems(LeafProps(m, None),
                                                                LeafRequired(m))), FALSE)),
                       Entry("host", Leaf(None, FALSE, None))>>, Some({"port"}), None)
    \/ \E it \in {None, Some(PrimitiveItems("string")), Some(PrimitiveItems("integer")),
                  Some(PrimitiveItems(""))} :
          s = Schema(<<Entry("port", ArrayProp(it, FALSE))>>, None, None)

\* One schema shape with every kind of node, and the hidden flag of each of
\* its properties set or not.
HiddenSchema(s) ==
    \E h \in [1..10 -> BOOLEAN] :
      s = Schema(<<
            Entry("host", Leaf(None, h[1], None)),
            Entry("dbname", ObjectProp(<<Entry("port", Leaf(None, h[3], None))>>, None, h[2])),
            Entry("port", ArrayProp(Some(ObjectItems(<<Entry("host", Leaf(None, h[5], None))>>,
                                                     None)), h[4])),
            Entry("ssl_mode", OneOfProp(<<
                Variant(<<Entry("mode", ConstProp("disable", h[10])),
                          Entry("password", Leaf(None, h[7], None)),
                          Entry("token", OneOfProp(<<
                              Variant(<<Entry("mode", ConstProp("verify-ca", FALSE)),
                                        Entry("host", Leaf(None, h[9], None))>>, None)>>,
                              h[8]))>>,
                        None)>>, h[6]))
          >>, None, None)

DiscValues ==
    {"verify-ca", "disable"}

SubKeys ==
    {"password", "port"}

\* The entries of a variant: its discriminant "mode" first (or none when v is
\* None), then its other properties.
VariantOf(v, m) ==
    Variant((IF v = None THEN <<>> ELSE <<Entry("mode", ConstProp(v[1], FALSE))>>)
                \o LeafProps(m, None),
            LeafRequired(m))

\* Variants with plain properties (no order, not required), and one variant
\* without a discriminant.
PlainVariants ==
    {VariantOf(Some(d), m) : d \in DiscValues,
                             m \in {l \in LeafLists(SubKeys) :
                                      \A i \in 1..Len(l) : l[i][2] = None /\ ~l[i][3]}}
    \cup {VariantOf(None, <<<<"host", None, FALSE>>>>)}

OneOfSchema(options) ==
    Schema(<<Entry("ssl_mode", OneOfProp(options, FALSE))>>, None, None)

\* A union of up to MaxVariants plain variants; discriminant values may repeat.
PlainOneOfSchema(s) ==
    \E os \in SeqsUpTo(PlainVariants, MaxVariants) : s = OneOfSchema(os)

\* A union whose first and third variant carry the same discriminant value,
\* with plain properties of any names.
RepeatedValueSchema(s) ==
    \E m1, m3 \in {l \in LeafLists(FlatKeys) :
                     \A i \in 1..Len(l) : l[i][2] = None /\ ~l[i][3]} :
        s = OneOfSchema(<<VariantOf(Some("disable"), m1),
                          VariantOf(Some("verify-ca"), <<<<"host", None, FALSE>>>>),
                          VariantOf(Some("disable"), m3)>>)

\* A union of two variants whose properties may carry an order and a
\* required mark.
PairOneOfSchema(s) ==
    \E d2 \in DiscValues : \E m1, m2 \in LeafLists(SubKeys) :
        s = OneOfSchema(<<VariantOf(Some("disable"), m1), VariantOf(Some(d2), m2)>>)

\* A variant without a properties mapping.
BareVariant ==
    [title |-> None, description |-> None, properties |-> None, required |-> None]

MalformedVariants ==
    { VariantOf(Some("disable"), <<<<"password", None, FALSE>>>>),
      VariantOf(None, <<<<"host", None, FALSE>>>>),
      BareVariant,
      Variant(<<Entry("mode", ConstProp("verify-ca", FALSE)),
                Entry("token", OneOfProp(<<BareVariant>>, FALSE))>>, None) }

\* Malformed schemas: a root without properties; and, beside a well-formed
\* leaf, a union (hidden or not) whose variants may lack a discriminant or
\* a properties mapping, and an array with or without an item schema.
MalformedSchema(s) ==
    \/ \E req \in {None, Some({"host"})} : \E gd \in {None, Some(<<GroupA>>)} :
          s = [properties |-> None, required |-> req, groups |-> gd]
    \/ \E os \in SeqsUpTo(MalformedVariants, 2) : \E h \in BOOLEAN :
          \E it \in {None, Some(PrimitiveItems("string"))} :
            s = Schema(<<Entry("ssl_mode", OneOfProp(os, h)),
                         Entry("port", ArrayProp(it, FALSE)),
                         Entry("host", Leaf(None, FALSE, None))>>, None, None)

\* What a property nested below the root may be: a leaf, an array (without
\* an item schema, of primitives, of objects, of objects holding a union),
\* an object, a union.
NestedProps ==
    { Leaf(None, FALSE, None),
      ArrayProp(None, FALSE),
      ArrayProp(Some(PrimitiveItems("integer")), FALSE),
      ArrayProp(Some(ObjectItems(<<Entry("port", Leaf(None, FALSE, None)),
                                   Entry("host", Leaf(None, FALSE, None))>>,
                                 Some({"port"}))), FALSE),
      ArrayProp(Some(ObjectItems(
          <<Entry("token", OneOfProp(<<VariantOf(Some("verify-ca"),
                                                 <<<<"password", None, FALSE>>>>)>>,
                                     FALSE))>>, None)), FALSE),
      ObjectProp(<<Entry("password", Leaf(None, FALSE, None))>>, None, FALSE),
      OneOfProp(<<VariantOf(Some("verify-ca"), <<<<"password", None, FALSE>>>>)>>, FALSE) }

\* Deep nesting: an array of objects at the root whose items hold a property
\* of any kind and a union, whose variant again holds a property of any
\* kind (so: a union inside an array inside a union variant inside an
\* array).
DeepSchema(s) ==
    \E x, y \in NestedProps : \E d \in DiscValues : \E r \in BOOLEAN :
        s = Schema(<<Entry("dbname", ArrayProp(Some(ObjectItems(
                <<Entry("host", x),
                  Entry("ssl_mode", OneOfProp(
                      <<Variant(<<Entry("mode", ConstProp(d, FALSE)),
                                  Entry("port", y)>>,
                                IF r THEN Some({"port"}) ELSE None)>>, FALSE))>>,
                IF r THEN Some({"host"}) ELSE None)), FALSE))>>, None, None)

\* Variants with or without a title and a description, with a discriminant
\* named "mode" or "host" declared before or after the other property; the
\* constant may be the empty string.
TitledVariants ==
    { [ title       |-> ti,
        description |-> de,
        properties  |-> Some(IF first
                             THEN <<Entry(k, ConstProp(c, FALSE)),
                                    Entry("password", Leaf(None, FALSE, None))>>
                             ELSE <<Entry("password", Leaf(None, FALSE, None)),
                                    Entry(k, ConstProp(c, FALSE))>>),
        required    |-> None ] :
        ti \in {None, Some(""), Some("Disable")}, de \in {None, Some("no SSL")},
        c \in DiscValues \cup {""}, k \in {"mode", "host"}, first \in BOOLEAN }

\* A union of one or two such variants.
TitledOneOfSchema(s) ==
    \E os \in SeqsUpTo(TitledVariants, 2) : s = OneOfSchema(os)

\* What the property classified below may hold as its second child.
ClassifiedChildren ==
    { Leaf(None, FALSE, None),
      Leaf(None, TRUE, None),
      ObjectProp(<<Entry("mode", Leaf(None, FALSE, None))>>, Some({"mode"}), FALSE),
      [OneOfProp(<<VariantOf(Some("verify-ca"), <<<<"host", None, FALSE>>>>)>>, FALSE)
          EXCEPT !.properties = Some(<<Entry("mode", Leaf(None, FALSE, None))>>)] }

\* A property "dbname" between two leaves, with every combination of a
\* type, a oneOf, an item schema and own properties, and with required
\* lists of its own and of the root that differ.
ClassifySchema(s) ==
    \E ty \in {"string", "object", "array"} : \E hasOneOf, hasItems, hasProps \in BOOLEAN :
      \E c \in ClassifiedChildren :
        \E rootReq \in {None, Some({"port"}), Some({"dbname", "password"})} :
          \E ownReq \in {None, Some({"port"}), Some({"password"})} :
            s = Schema(
                  <<Entry("host", Leaf(None, FALSE, None)),
                    Entry("dbname",
                          [BaseProp EXCEPT
                              !.type = ty,
                              !.oneOf = IF hasOneOf
                                        THEN Some(<<VariantOf(Some("disable"),
                                                      <<<<"password", None, FALSE>>>>)>>)
                                        ELSE None,
                              !.items = IF hasItems THEN Some(PrimitiveItems("string"))
                                        ELSE None,
                              !.properties = IF hasProps
                                             THEN Some(<<Entry("port", Leaf(None, FALSE, None)),
                                                         Entry("password", c)>>)
                                             ELSE None,
                              !.required = ownReq]),
                    Entry("token", Leaf(None, FALSE, None))>>,
                  rootReq, None)

InnerUnion(vs) ==
    OneOfProp([i \in 1..Len(vs) |->
                 VariantOf(Some(vs[i][1]), <<<<vs[i][2], None, FALSE>>>>)], FALSE)

OuterVariant(d, k, inner) ==
    Variant(<<Entry("mode", ConstProp(d, FALSE)),
              Entry(k, Leaf(None, FALSE, None)),
              Entry("token", inner)>>, Some({"token"}))

\* A union nested in the variants of a union that sits in a nested object:
\* each outer variant has a property "token" that is itself a union.
NestedOneOfSchema(s) ==
    \E k \in SubKeys : \E d2 \in DiscValues :
      \E v1, v2 \in SeqsUpTo(DiscValues \X SubKeys, 2) :
        s = Schema(<<Entry("dbname", ObjectProp(
                       <<Entry("ssl_mode", OneOfProp(<<OuterVariant("disable", k, InnerUnion(v1)),
                                                   OuterVariant(d2, "host", InnerUnion(v2))>>,
                                                 FALSE))>>,
                       Some({"ssl_mode"}), FALSE))>>, None, None)

(***************************************************************************)
(* The Flows list (src/unnamed/part_000).                                  *)
(*                                                                         *)
(* Flows keeps the list runningDeploymentIds in React state.  Every render *)
(* of Flows builds a new handleQuickRunDeployment, closed over the list of *)
(* that render, and hands it and the list to one Actions element per flow. *)
(* Actions is wrapped in memo with a comparator that looks at flow.lock    *)
(* only: while the lock of a flow stays the same value, the mounted        *)
(* Actions of that flow keeps the props of the render that last got        *)
(* through, and so do the closures of its Run button.                      *)
(*                                                                         *)
(*   runningDeploymentIds  the state of Flows, a list of deployment ids    *)
(*   actionsProps[d]       the runningDeploymentIds in the props of the    *)
(*                         mounted Actions of d (the list its onClick and  *)
(*                         its handleQuickRunDeployment are closed over)   *)
(*   inFlight[d]           None, or Some(l) while a quick-run request of d *)
(*                         is pending, l being the list the handler that   *)
(*                         sent it is closed over                          *)
(*   lock[d]               whether flow.lock of d is set                   *)
(*   tempSyncState[d]      the state of useSyncLock in Actions of d        *)
(***************************************************************************)
Deployments ==
    {"dep-1", "dep-2"}

\* list.includes(d)
Includes(list, d) ==
    \E i \in 1..Len(list) : list[i] = d

\* list.filter((id) => id !== d)
FilterOut(list, d) ==
    SelectSeq(list, LAMBDA id : id # d)

\* The state after the first render: nothing runs.
FlowsMounted ==
    /\ runningDeploymentIds = <<>>
    /\ actionsProps = [d \in Deployments |-> <<>>]
    /\ inFlight = [d \in Deployments |-> None]
    /\ tempSyncState = [d \in Deployments |-> FALSE]

\* The onClick of the Run button of d (lines 217-226), with the part of
\* handleQuickRunDeployment that runs before its await (line 399): the
\* request is sent by the handler the Actions of d holds, and the id is
\* pushed onto the list the Actions of d holds.
RunClick(d) ==
    /\ ~tempSyncState[d] /\ ~lock[d]
    /\ tempSyncState' = [tempSyncState EXCEPT ![d] = TRUE]
    /\ inFlight' = [inFlight EXCEPT ![d] = Some(actionsProps[d])]
    /\ runningDeploymentIds' =
          IF ~Includes(actionsProps[d], d)
          THEN Append(actionsProps[d], d)
          ELSE runningDeploymentIds
    /\ UNCHANGED <<actionsProps, lock>>
    /\ UNCHANGED parserVars

\* The request of d settles (lines 399-408 after the await, then lines
\* 187-192): with success or with an error, the finally block sets the list
\* to the one the handler is closed over, without d; after an error
\* handlingSyncState clears tempSyncState.
QuickRunSettles(d, ok) ==
    /\ inFlight[d] # None
    /\ runningDeploymentIds' = FilterOut(inFlight[d][1], d)
    /\ inFlight' = [inFlight EXCEPT ![d] = None]
    /\ tempSyncState' = [tempSyncState EXCEPT ![d] = IF ok THEN @ ELSE FALSE]
    /\ UNCHANGED <<actionsProps, lock>>
    /\ UNCHANGED parserVars

\* Flows is rendered with a flows list in which the lock of d is another
\* value (set, released, or a new lock object): the comparator of memo
\* (lines 252-254) lets the new props through to the Actions of d.
FlowLockChanges(d, locked) ==
    /\ lock[d] \/ locked
    /\ lock' = [lock EXCEPT ![d] = locked]
    /\ actionsProps' = [actionsProps EXCEPT ![d] = runningDeploymentIds]
    /\ UNCHANGED <<runningDeploymentIds, inFlight, tempSyncState>>
    /\ UNCHANGED parserVars

\* useSyncLock (not part of the sources at hand) ends the temporary sync
\* state of d once the run it was set for is over; it is taken to do so at
\* any moment at which no request of d is pending and no lock is set.
SyncLockEnds(d) ==
    /\ tempSyncState[d] /\ inFlight[d] = None /\ ~lock[d]
    /\ tempSyncState' = [tempSyncState EXCEPT ![d] = FALSE]
    /\ UNCHANGED <<runningDeploymentIds, actionsProps, inFlight, lock>>
    /\ UNCHANGED parserVars

InitFlows ==
    /\ spec = [properties |-> None, required |-> None, groups |-> None]
    /\ out = <<>>
    /\ pc = "idle"
    /\ FlowsMounted
    /\ lock \in [Deployments -> BOOLEAN]

NextFlows ==
    \E d \in Deployments :
        \/ RunClick(d)
        \/ \E ok \in BOOLEAN : QuickRunSettles(d, ok)
        \/ \E locked \in BOOLEAN : FlowLockChanges(d, locked)
        \/ SyncLockEnds(d)

SpecFlows ==
    InitFlows /\ [][NextFlows]_vars

(***************************************************************************)
(* The state machine: a caller holds a schema and calls parseAirbyteSpec.  *)
(***************************************************************************)
Init ==
    /\ \/ OrderedSchema(spec)
       \/ GroupedSchema(spec)
       \/ ArraySchema(spec)
       \/ HiddenSchema(spec)
       \/ PlainOneOfSchema(spec)
       \/ RepeatedValueSchema(spec)
       \/ PairOneOfSchema(spec)
       \/ NestedOneOfSchema(spec)
       \/ MalformedSchema(spec)
       \/ DeepSchema(spec)
       \/ TitledOneOfSchema(spec)
       \/ ClassifySchema(spec)
    /\ out = <<>>
    /\ pc = "ready"
    /\ FlowsMounted
    /\ lock = [d \in Deployments |-> FALSE]

\* A call that throws leaves the caller without a result (pc = "threw").
ParseAirbyteSpec ==
    /\ pc = "ready"
    /\ IF parseAirbyteSpecThrows(spec)
       THEN out' = <<>> /\ pc' = "threw"
       ELSE out' = parseAirbyteSpec(spec) /\ pc' = "done"
    /\ UNCHANGED spec
    /\ UNCHANGED flowVars

Next ==
    ParseAirbyteSpec

Spec ==
    Init /\ [][Next]_vars

(***************************************************************************)
(* Vocabulary of the properties.                                           *)
(***************************************************************************)
Done ==
    pc = "done"

RECURSIVE TreeNodes(_)
\* Every field node of a list of fields, with the nodes of its subFields
\* after it, as a sequence: two equal records at two places stay two nodes.
TreeNodes(fs) ==
    Concat([i \in 1..Len(fs) |->
              <<fs[i]>> \o (IF fs[i].subFields = None THEN <<>>
                            ELSE TreeNodes(fs[i].subFields[1]))])

\* Every field node of the output.
OutNodes ==
    Concat([g \in 1..Len(out) |-> TreeNodes(out[g].fields)])

IsOneOfNode(n) ==
    n.constOptions # None

IsArrayNode(n) ==
    n.itemType # None

IsPrefix(p, q) ==
    Len(p) <= Len(q) /\ SubSeq(q, 1, Len(p)) = p

Count(seq, x) ==
    Cardinality({i \in 1..Len(seq) : seq[i] = x})

Range(seq) ==
    {seq[i] : i \in 1..Len(seq)}

IsPermutationOf(s, t) ==
    /\ Len(s) = Len(t)
    /\ \A x \in Range(s) \cup Range(t) : Count(s, x) = Count(t, x)

\* The field-ordering rules for a field a placed before a field b.
InRuleOrder(a, b) ==
    /\ (a.order # None /\ b.order # None) => a.order[1] <= b.order[1]
    /\ ~(a.order = None /\ b.order # None)
    /\ (a.order = None /\ b.order = None) => ~(~a.required /\ b.required)
    /\ (a.order = None /\ b.order = None /\ a.required = b.required)
          => CollationRank(FieldName(a)) <= CollationRank(FieldName(b))

SortedByRules(l) ==
    \A i, j \in 1..Len(l) : i < j => InRuleOrder(l[i], l[j])

RECURSIVE HiddenPaths(_, _)
\* The output paths of the properties of a mapping, at any depth, that are
\* marked airbyte_hidden.
HiddenPaths(properties, parentPath) ==
    UNION {
        LET e    == properties[i]
            path == Append(parentPath, e.key)
        IN  (IF e.prop.airbyte_hidden THEN {path} ELSE {})
            \cup (IF e.prop.properties # None
                  THEN HiddenPaths(e.prop.properties[1], path) ELSE {})
            \cup (IF e.prop.items # None /\ e.prop.items[1].properties # None
                  THEN HiddenPaths(e.prop.items[1].properties[1], Append(path, "0")) ELSE {})
            \cup (IF e.prop.oneOf # None
                  THEN UNION {HiddenPaths(e.prop.oneOf[1][v].properties[1], path) :
                                 v \in 1..Len(e.prop.oneOf[1])}
                  ELSE {})
        : i \in 1..Len(properties)}

RECURSIVE DistinctDiscriminants(_)
\* Every union of a mapping, at any depth, gives its variants pairwise
\* different discriminant values.
DistinctDiscriminants(properties) ==
    \A i \in 1..Len(properties) :
        LET p == properties[i].prop
        IN  /\ p.properties # None => DistinctDiscriminants(p.properties[1])
            /\ (p.items # None /\ p.items[1].properties # None)
                  => DistinctDiscriminants(p.items[1].properties[1])
            /\ p.oneOf # None =>
                  LET os == p.oneOf[1]
                      disc(o) == IF FindConst(o.properties[1]) = 0 THEN None
                                 ELSE o.properties[1][FindConst(o.properties[1])].prop.const
                  IN  /\ \A a, b \in 1..Len(os) :
                            (a # b /\ disc(os[a]) # None) => disc(os[a]) # disc(os[b])
                      /\ \A a \in 1..Len(os) : DistinctDiscriminants(os[a].properties[1])

\* The call has returned or thrown.
Returned ==
    pc # "ready"

Threw ==
    pc = "threw"

\* The top-level fields the traversal produces for the schema.
AllFields ==
    parseProperties(spec.properties[1], <<>>, RequiredOf(spec.required))

(***************************************************************************)
(* C1: no property marked airbyte_hidden, and no descendant of one,        *)
(* appears as a field anywhere in the output tree: no output node carries  *)
(* the hidden mark, and no output node's path is or extends the path of a  *)
(* hidden property.                                                        *)
(***************************************************************************)
C1_NoHiddenInOutput ==
    Done => \A i \in 1..Len(OutNodes) :
               /\ ~OutNodes[i].hidden
               /\ \A hp \in HiddenPaths(spec.properties[1], <<>>) :
                     ~IsPrefix(hp, OutNodes[i].path)

(***************************************************************************)
(* C2: no two distinct field nodes of the output tree have the same id.    *)
(* Stated on the schemas most favourable to the claim, those whose unions  *)
(* give their variants pairwise different discriminant values.             *)
(***************************************************************************)
C2_IdsUnique ==
    (Done /\ DistinctDiscriminants(spec.properties[1])) =>
        \A i, j \in 1..Len(OutNodes) : i # j => OutNodes[i].id # OutNodes[j].id

\* The fields of the output groups, one list after the other.
TopFields ==
    Concat([g \in 1..Len(out) |-> out[g].fields])

\* The top-level union properties of the schema that the traversal visits.
TopUnions ==
    {i \in 1..Len(spec.properties[1]) :
        spec.properties[1][i].prop.oneOf # None /\ ~spec.properties[1][i].prop.airbyte_hidden}

\* The output nodes of the top-level property at index i.
TopNodesOf(i) ==
    {n \in Range(TopFields) : n.path = <<spec.properties[1][i].key>>}

\* The index of the discriminant of a variant: its first property with a
\* truthy const, 0 when it has none.
Discriminant(o) ==
    LET hit == {i \in 1..Len(o.properties[1]) : Truthy(o.properties[1][i].prop.const)}
    IN  IF hit = {} THEN 0 ELSE CHOOSE i \in hit : \A j \in hit : i <= j

(***************************************************************************)
(* C3: the subfield built from property K of a variant with discriminant   *)
(* value V of a oneOf property at path P has id P joined by dots, then     *)
(* ".", V, ".", K; two subfields of one union that have the same key and   *)
(* different parent values therefore have different ids.  For the unions   *)
(* at the top level the subfield is traced back to the variant and the     *)
(* property of the schema it is built from.                                *)
(***************************************************************************)
C3_SubFieldId ==
    Done =>
      /\ \A i \in 1..Len(OutNodes) :
            IsOneOfNode(OutNodes[i]) =>
              LET n   == OutNodes[i]
                  sub == n.subFields[1]
              IN  /\ \A k \in 1..Len(sub) :
                        /\ sub[k].parentValue # None
                        /\ sub[k].path = Append(n.path, FieldName(sub[k]))
                        /\ sub[k].id = Join(n.path) \o "." \o sub[k].parentValue[1]
                                          \o "." \o FieldName(sub[k])
                  /\ \A k, l \in 1..Len(sub) :
                        (FieldName(sub[k]) = FieldName(sub[l])
                            /\ sub[k].parentValue # sub[l].parentValue)
                          => sub[k].id # sub[l].id
      /\ \A i \in TopUnions : \A n \in TopNodesOf(i) :
            LET key == spec.properties[1][i].key
                os  == spec.properties[1][i].prop.oneOf[1]
            IN  \A v \in 1..Len(os) :
                  Discriminant(os[v]) # 0 =>
                    LET d == os[v].properties[1][Discriminant(os[v])]
                    IN  \A e \in Range(os[v].properties[1]) :
                          e.key # d.key =>
                            \E k \in 1..Len(n.subFields[1]) :
                              /\ n.subFields[1][k].parentValue = d.prop.const
                              /\ n.subFields[1][k].id =
                                    key \o "." \o d.prop.const[1] \o "." \o e.key

\* Two variants with different discriminant values declare the same
\* property, as ssl_mode.verify-ca.password and ssl_mode.disable.password.
C3_Witness ==
    /\ Done
    /\ \E i \in TopUnions : \E n \in TopNodesOf(i) :
          \E k, l \in 1..Len(n.subFields[1]) :
            /\ n.subFields[1][k].id = "ssl_mode.verify-ca.password"
            /\ n.subFields[1][l].id = "ssl_mode.disable.password"
            /\ n.subFields[1][k].parentValue = Some("verify-ca")
            /\ n.subFields[1][l].parentValue = Some("disable")

(***************************************************************************)
(* C4: every list ordered by sortFieldsByAirbyteRules, the fields of each  *)
(* output group and the item subfields of each array node, is in rule      *)
(* order at every pair of positions i < j: explicit orders ascending (0 is *)
(* explicit), no field without an order before one with an order, among    *)
(* fields without an order no optional one before a required one, and      *)
(* among those with the same required flag the final path segments in      *)
(* ascending lexical order.                                                *)
(***************************************************************************)
C4_SiblingsInRuleOrder ==
    Done =>
      /\ \A g \in 1..Len(out) : SortedByRules(out[g].fields)
      /\ \A i \in 1..Len(OutNodes) :
            IsArrayNode(OutNodes[i]) => SortedByRules(OutNodes[i].subFields[1])

\* required host, optional port, required dbname come out as dbname, host,
\* port.
C4_Witness ==
    /\ Done
    /\ spec.groups = None
    /\ [i \in 1..Len(spec.properties[1]) |-> spec.properties[1][i].key] = <<"host", "port", "dbname">>
    /\ \A i \in 1..Len(spec.properties[1]) : spec.properties[1][i].prop.order = None
    /\ spec.required = Some({"host", "dbname"})
    /\ [i \in 1..Len(out[1].fields) |-> out[1].fields[i].id] = <<"dbname", "host", "port">>

(***************************************************************************)
(* C5: when the schema declares groups, the output has one group per       *)
(* declared group, in schema order, and the fields of output group g are   *)
(* exactly the top-level fields whose group tag is g's id; a top-level     *)
(* field whose tag is absent or is no declared id is in no output group.   *)
(***************************************************************************)
C5_StrictGrouping ==
    (Done /\ spec.groups # None) =>
      LET groups == spec.groups[1]
      IN  /\ Len(out) = Len(groups)
          /\ \A g \in 1..Len(groups) :
                /\ out[g].id = groups[g].id
                /\ \A f \in Range(AllFields) \cup Range(out[g].fields) :
                      Count(out[g].fields, f) =
                          IF f.group = Some(groups[g].id) THEN Count(AllFields, f) ELSE 0
          /\ \A f \in Range(AllFields) :
                (f.group = None \/ \A g \in 1..Len(groups) : f.group # Some(groups[g].id))
                  => f \notin Range(TopFields)

\* groups A and B, and three fields tagged A, B and not at all: each group
\* holds its one field and the untagged field is in neither.
C5_Witness ==
    /\ Done
    /\ spec.groups # None
    /\ [g \in 1..Len(spec.groups[1]) |-> spec.groups[1][g].id] = <<"A", "B">>
    /\ {spec.properties[1][i].prop.group : i \in 1..Len(spec.properties[1])} = {Some("A"), Some("B"), None}
    /\ Len(spec.properties[1]) = 3
    /\ Len(out) = 2 /\ Len(out[1].fields) = 1 /\ Len(out[2].fields) = 1

(***************************************************************************)
(* C6: when the schema declares no groups, the output is exactly one       *)
(* group, whose field list holds every top-level field of the traversal    *)
(* exactly once, whatever its group tag, in rule order.                    *)
(***************************************************************************)
C6_DefaultGroup ==
    (Done /\ spec.groups = None) =>
      /\ Len(out) = 1
      /\ IsPermutationOf(out[1].fields, AllFields)
      /\ SortedByRules(out[1].fields)

\* No groups declared, three fields declared out of rule order, one of them
\* tagged with a group: all three are in the one group.
C6_Witness ==
    /\ Done
    /\ spec.groups = None
    /\ Len(AllFields) = 3
    /\ ~SortedByRules(AllFields)
    /\ \E f \in Range(AllFields) : f.group = Some("Z")
    /\ Len(out) = 1 /\ Len(out[1].fields) = 3

(***************************************************************************)
(* C7: in the subFields of every oneOf node, for any oneOf input (two      *)
(* variants may carry the same discriminant value), the subfields that     *)
(* share a parentValue are in rule order relative to each other.           *)
(***************************************************************************)
C7_SubFieldsInRuleOrder ==
    Done => \A i \in 1..Len(OutNodes) :
              IsOneOfNode(OutNodes[i]) =>
                LET sub == OutNodes[i].subFields[1]
                IN  \A k, l \in 1..Len(sub) :
                      (k < l /\ sub[k].parentValue = sub[l].parentValue)
                        => InRuleOrder(sub[k], sub[l])

\* Which occurrence of its record the element at index i of l is.
Occurrence(l, i) ==
    Cardinality({j \in 1..i : l[j] = l[i]})

\* Where the element at index i of c stands in s, a rearrangement of c: equal
\* records keep their mutual order, the choice that moves the fewest.
PlaceIn(s, c, i) ==
    CHOOSE p \in 1..Len(s) : s[p] = c[i] /\ Occurrence(s, p) = Occurrence(c, i)

(***************************************************************************)
(* C8: sorting the subfields of a oneOf node never changes the relative    *)
(* order of two subfields with different parentValue: if a was collected   *)
(* before b and their parent values differ, a is before b in the final     *)
(* subFields.  Stated for the unions at the top level of the schema.       *)
(***************************************************************************)
C8_ParentGroupsKeepOrder ==
    Done => \A i \in TopUnions : \A n \in TopNodesOf(i) :
              LET c == CollectOneOf(spec.properties[1][i].prop, <<spec.properties[1][i].key>>).subFields
                  s == n.subFields[1]
              IN  /\ IsPermutationOf(s, c)
                  /\ \A a, b \in 1..Len(c) :
                        (a < b /\ c[a].parentValue # c[b].parentValue)
                          => PlaceIn(s, c, a) < PlaceIn(s, c, b)

SwapVariants(p) ==
    [p EXCEPT !.oneOf = Some(<<p.oneOf[1][2], p.oneOf[1][1]>>)]

WithParent(l, v) ==
    SelectSeq(l, LAMBDA f : f.parentValue = v)

\* A top-level union of two variants that have different discriminant
\* values under the same discriminant name.
TwoVariantUnions ==
    {i \in TopUnions :
        LET os == spec.properties[1][i].prop.oneOf[1]
        IN  /\ Len(os) = 2
            /\ Discriminant(os[1]) # 0 /\ Discriminant(os[2]) # 0
            /\ os[1].properties[1][Discriminant(os[1])].key
                  = os[2].properties[1][Discriminant(os[2])].key
            /\ os[1].properties[1][Discriminant(os[1])].prop.const
                  # os[2].properties[1][Discriminant(os[2])].prop.const}

\* The node parseOneOfField returns for the top-level union at index i once
\* its two variants are declared in the other order.
SwappedNode(i, n) ==
    parseOneOfField(spec.properties[1][i].key, SwapVariants(spec.properties[1][i].prop),
                    <<spec.properties[1][i].key>>, n.required)

(***************************************************************************)
(* C9: for a oneOf property of two variants with different discriminant    *)
(* values, declaring the two variants in the other order leaves, for each  *)
(* discriminant value V, the sequence of subfields with parentValue V the  *)
(* same in ids and content; the discriminant options come out in the       *)
(* other order, the subfields are the same ones, and nothing else of the   *)
(* node changes.  The two variants name their discriminant property alike, *)
(* as the parser assumes (line 174): constKey is that name either way.     *)
(***************************************************************************)
C9_VariantSwap ==
    Done => \A i \in TwoVariantUnions : \A n \in TopNodesOf(i) :
              LET m == SwappedNode(i, n)
              IN  /\ \A k \in 1..Len(n.constOptions[1]) :
                        WithParent(m.subFields[1], Some(n.constOptions[1][k].value))
                          = WithParent(n.subFields[1], Some(n.constOptions[1][k].value))
                  /\ {n.subFields[1][k].parentValue : k \in 1..Len(n.subFields[1])}
                        \subseteq {Some(n.constOptions[1][k].value) : k \in 1..Len(n.constOptions[1])}
                  /\ IsPermutationOf(m.subFields[1], n.subFields[1])
                  /\ m.constOptions[1] = Reverse(n.constOptions[1])
                  /\ [m EXCEPT !.subFields = None, !.constOptions = None]
                        = [n EXCEPT !.subFields = None, !.constOptions = None]

\* Two variants, each with subfields declared out of rule order: the
\* swap moves the two parent groups and keeps each group as it was.
C9_Witness ==
    /\ Done
    /\ \E i \in TwoVariantUnions : \E n \in TopNodesOf(i) :
          /\ WithParent(n.subFields[1], Some("disable")) # <<>>
          /\ WithParent(n.subFields[1], Some("verify-ca")) # <<>>
          /\ n.subFields[1] # CollectOneOf(spec.properties[1][i].prop, n.path).subFields
          /\ SwappedNode(i, n).subFields # n.subFields

(***************************************************************************)
(* C11: parseAirbyteSpec raises an error to its caller if and only if the  *)
(* root document has no properties mapping: every schema whose root has    *)
(* properties, whatever is malformed below the root, is parsed to a        *)
(* result, and a root without properties is rejected with no field         *)
(* produced.                                                               *)
(***************************************************************************)
C11_RaisesIffNoRootProperties ==
    Returned => /\ Threw <=> spec.properties = None
                /\ Threw => out = <<>>

RECURSIVE DeclaredProps(_, _, _)
\* The properties the schema declares at any depth, leaving out the hidden
\* ones with all they hold, what an object with a oneOf holds beside it and
\* the variants without a discriminant: records of the output path of the
\* property, the property and the place of its declaration (the indices
\* leading to it, so that two declarations never coincide).
DeclaredProps(properties, parentPath, at) ==
    UNION {
        LET e    == properties[i]
            p    == e.prop
            path == Append(parentPath, e.key)
            here == Append(at, i)
        IN  IF p.airbyte_hidden THEN {}
            ELSE {[path |-> path, prop |-> p, at |-> here]}
                 \cup (IF p.oneOf # None
                       THEN UNION {DeclaredProps(p.oneOf[1][v].properties[1], path,
                                                 Append(here, v)) :
                                     v \in {w \in 1..Len(p.oneOf[1]) :
                                              /\ p.oneOf[1][w].properties # None
                                              /\ Discriminant(p.oneOf[1][w]) # 0}}
                       ELSE IF p.type = "array" /\ p.items # None
                       THEN (IF p.items[1].properties # None
                             THEN DeclaredProps(p.items[1].properties[1],
                                                Append(path, "0"), here)
                             ELSE {})
                       ELSE IF p.type = "object" /\ p.properties # None
                       THEN DeclaredProps(p.properties[1], path, here)
                       ELSE {})
        : i \in 1..Len(properties)}

\* The declared properties of type array with an item schema and no oneOf.
DeclaredArrays ==
    {a \in DeclaredProps(spec.properties[1], <<>>, <<>>) :
        a.prop.type = "array" /\ a.prop.items # None /\ a.prop.oneOf = None}

\* The places of the output tree that hold an array node with the path p.
ArrayNodesAt(p) ==
    {i \in 1..Len(OutNodes) : OutNodes[i].path = p /\ IsArrayNode(OutNodes[i])}

\* The node n is the array node the claim describes for the property a.
IsArrayNodeOf(n, a) ==
    LET items == a.prop.items[1]
    IN  /\ n.path = a.path
        /\ IsArrayNode(n)
        /\ items.type # "" => n.itemType = Some(items.type)
        /\ items.properties = None => n.subFields = Some(<<>>)
        /\ (items.type = "object" /\ items.properties # None) =>
              /\ SortedByRules(n.subFields[1])
              /\ IsPermutationOf(n.subFields[1],
                                  parseProperties(items.properties[1], Append(a.path, "0"),
                                                  RequiredOf(items.required)))
              /\ \A k \in 1..Len(items.properties[1]) :
                    LET c == items.properties[1][k]
                    IN  (c.prop.oneOf = None /\ c.prop.items = None
                           /\ c.prop.properties = None /\ ~c.prop.airbyte_hidden) =>
                        \E j \in 1..Len(n.subFields[1]) :
                            /\ n.subFields[1][j].path = a.path \o <<"0", c.key>>
                            /\ n.subFields[1][j].required
                                  = (c.key \in RequiredOf(items.required))

(***************************************************************************)
(* C12: for every non-hidden property of type array with an item schema    *)
(* and no oneOf, exactly one array node is emitted: with primitive items   *)
(* its itemType is the declared item type and its subFields are empty;     *)
(* with object items that have properties its subFields are the fields of  *)
(* the item properties (paths extended by the index placeholder "0",       *)
(* required from the item's own list) in rule order.  Stated for schemas   *)
(* without groups, where no top-level field is dropped.                    *)
(***************************************************************************)
C12_ArrayNodes ==
    (Done /\ spec.groups = None) =>
        \A a \in DeclaredArrays :
            /\ Cardinality(ArrayNodesAt(a.path))
                  = Cardinality({b \in DeclaredArrays : b.path = a.path})
            /\ \E i \in ArrayNodesAt(a.path) : IsArrayNodeOf(OutNodes[i], a)

\* The declared unions, and the declared arrays whose items are objects with
\* at least one visible property.
DeclaredUnions ==
    {u \in DeclaredProps(spec.properties[1], <<>>, <<>>) : u.prop.oneOf # None}

DeclaredObjectArrays ==
    {a \in DeclaredArrays :
        /\ a.prop.items[1].type = "object"
        /\ a.prop.items[1].properties # None
        /\ \E k \in 1..Len(a.prop.items[1].properties[1]) :
              ~a.prop.items[1].properties[1][k].prop.airbyte_hidden}

\* The variants of a union that have a discriminant.
Discriminated(u) ==
    {v \in 1..Len(u.prop.oneOf[1]) :
        u.prop.oneOf[1][v].properties # None /\ Discriminant(u.prop.oneOf[1][v]) # 0}

\* Some node of the output tree expands the union u: it has one option per
\* variant with a discriminant and one subfield per other property of those
\* variants.
UnionExpanded(u) ==
    \E i \in 1..Len(OutNodes) :
        LET n == OutNodes[i]
        IN  /\ n.path = u.path
            /\ IsOneOfNode(n)
            /\ Len(n.constOptions[1]) = Cardinality(Discriminated(u))
            /\ \A v \in Discriminated(u) :
                  \A k \in 1..Len(u.prop.oneOf[1][v].properties[1]) :
                      k # Discriminant(u.prop.oneOf[1][v]) =>
                      \E j \in 1..Len(n.subFields[1]) :
                          n.subFields[1][j].path
                              = Append(u.path, u.prop.oneOf[1][v].properties[1][k].key)

\* Some node of the output tree expands the array a into item subfields.
ArrayExpanded(a) ==
    \E i \in 1..Len(OutNodes) :
        LET n == OutNodes[i]
        IN  /\ n.path = a.path
            /\ IsArrayNode(n)
            /\ n.subFields[1] # <<>>
            /\ \A j \in 1..Len(n.subFields[1]) :
                  IsPrefix(Append(a.path, "0"), n.subFields[1][j].path)

(***************************************************************************)
(* C13: nesting is handled at any depth: when the traversal of a finite    *)
(* schema has ended (Done), every array of objects and every union the     *)
(* schema declares, however deep (a union inside an array inside a union   *)
(* variant included), is expanded in the output tree: an array into its    *)
(* item subfields, a union into its discriminant options and variant       *)
(* subfields.  Stated for schemas without groups, where no top-level       *)
(* field is dropped.                                                       *)
(***************************************************************************)
C13_NestingExpanded ==
    (Done /\ spec.groups = None) =>
        /\ \A u \in DeclaredUnions : UnionExpanded(u)
        /\ \A a \in DeclaredObjectArrays : ArrayExpanded(a)

\* The index of the first property of a variant that fixes a constant
\* value, whatever the value; 0 when the variant has none.
FirstConst(o) ==
    LET hit == {i \in 1..Len(o.properties[1]) : o.properties[1][i].prop.const # None}
    IN  IF hit = {} THEN 0 ELSE CHOOSE i \in hit : \A j \in hit : i <= j

\* The options the claim describes for a list of variants: one for each
\* variant with a constant, in declaration order.
ExpectedOptions(os) ==
    LET withConst == SelectSeq(os, LAMBDA o : FirstConst(o) # 0)
    IN  [k \in 1..Len(withConst) |->
            LET o == withConst[k]
                v == o.properties[1][FirstConst(o)].prop.const[1]
            IN  [ value       |-> v,
                  title       |-> IF Truthy(o.title) THEN o.title[1] ELSE v,
                  description |-> o.description ]]

ExpectedConstKey(os) ==
    LET withConst == SelectSeq(os, LAMBDA o : FirstConst(o) # 0)
    IN  IF withConst = <<>> THEN None
        ELSE Some(withConst[1].properties[1][FirstConst(withConst[1])].key)

(***************************************************************************)
(* C14: the constOptions of a oneOf node hold exactly one option for each  *)
(* variant whose properties include one fixing a constant value, in        *)
(* declaration order, with the constant as value, the variant's title (or  *)
(* the value, when it has none) as label and the variant's description;    *)
(* constKey is the name of the discriminant property of the first such     *)
(* variant.  Stated for the unions at the top level of schemas without     *)
(* groups.                                                                 *)
(***************************************************************************)
C14_ConstOptions ==
    (Done /\ spec.groups = None) =>
        \A i \in TopUnions : \A n \in TopNodesOf(i) :
            /\ n.constOptions = Some(ExpectedOptions(spec.properties[1][i].prop.oneOf[1]))
            /\ n.constKey = ExpectedConstKey(spec.properties[1][i].prop.oneOf[1])

\* The union property p without its variant at index v.
WithoutVariant(p, v) ==
    [p EXCEPT !.oneOf = Some(SubSeq(p.oneOf[1], 1, v - 1)
                                \o SubSeq(p.oneOf[1], v + 1, Len(p.oneOf[1])))]

\* The schema without the variant at index v of its top-level union at
\* index i.
SpecWithoutVariant(i, v) ==
    [spec EXCEPT !.properties[1][i].prop = WithoutVariant(@, v)]

\* The variant declares no property that fixes a constant value.
NoDiscriminant(o) ==
    o.properties = None \/ FirstConst(o) = 0

\* The pairs <<w, k>> of a variant w of the list os with the discriminant
\* value d and a property k of it other than its discriminant.
OtherProps(os, d) ==
    UNION { {<<w, k>> : k \in (1..Len(os[w].properties[1])) \ {FirstConst(os[w])}} :
              w \in {x \in 1..Len(os) :
                       /\ ~NoDiscriminant(os[x])
                       /\ os[x].properties[1][FirstConst(os[x])].prop.const = Some(d)} }

(***************************************************************************)
(* C15: a variant without a discriminant property contributes no option    *)
(* and no subfield and leaves the other variants alone: the result is the  *)
(* one the schema gives without that variant; a variant with a             *)
(* discriminant contributes exactly one subfield per property other than   *)
(* its discriminant, each with parentValue equal to the variant's          *)
(* discriminant value.  Stated for the unions at the top level of schemas  *)
(* without groups.                                                         *)
(***************************************************************************)
C15_VariantContributions ==
    /\ (Returned /\ spec.properties # None /\ spec.groups = None) =>
          \A i \in TopUnions :
              \A v \in 1..Len(spec.properties[1][i].prop.oneOf[1]) :
                  ( /\ NoDiscriminant(spec.properties[1][i].prop.oneOf[1][v])
                    /\ ~parseAirbyteSpecThrows(SpecWithoutVariant(i, v)) ) =>
                  /\ Done
                  /\ out = parseAirbyteSpec(SpecWithoutVariant(i, v))
    /\ (Done /\ spec.groups = None) =>
          \A i \in TopUnions : \A n \in TopNodesOf(i) :
              LET os == spec.properties[1][i].prop.oneOf[1]
              IN  \A v \in 1..Len(os) :
                      ~NoDiscriminant(os[v]) =>
                          LET d == os[v].properties[1][FirstConst(os[v])].prop.const[1]
                          IN  /\ Cardinality({j \in 1..Len(n.subFields[1]) :
                                                n.subFields[1][j].parentValue = Some(d)})
                                    = Cardinality(OtherProps(os, d))
                              /\ \A k \in 1..Len(os[v].properties[1]) :
                                    k # FirstConst(os[v]) =>
                                    \E j \in 1..Len(n.subFields[1]) :
                                        /\ n.subFields[1][j].path
                                              = Append(n.path, os[v].properties[1][k].key)
                                        /\ n.subFields[1][j].parentValue = Some(d)

RECURSIVE ExpectedShape(_, _, _)
\* What the classification the claim describes gives for a mapping: for
\* each visible property, in declaration order, one entry that names its
\* path, its kind and its required mark, or, for an object with properties
\* and no oneOf, the entries of its children under its own required list.
ExpectedShape(properties, parentPath, required) ==
    Concat([i \in 1..Len(properties) |->
        LET p    == properties[i].prop
            path == Append(parentPath, properties[i].key)
            node(kind) == <<[path |-> path, kind |-> kind,
                             required |-> properties[i].key \in required]>>
        IN  IF p.airbyte_hidden THEN <<>>
            ELSE IF p.oneOf # None THEN node("oneOf")
            ELSE IF p.type = "array" /\ p.items # None THEN node("array")
            ELSE IF p.type = "object" /\ p.properties # None
                 THEN ExpectedShape(p.properties[1], path, RequiredOf(p.required))
            ELSE node("leaf")])

\* The path, kind and required mark of an output node.
ShapeOf(n) ==
    [ path     |-> n.path,
      kind     |-> IF IsOneOfNode(n) THEN "oneOf"
                   ELSE IF IsArrayNode(n) THEN "array" ELSE "leaf",
      required |-> n.required ]

(***************************************************************************)
(* C16: parseProperties classifies each visible property by exactly one    *)
(* rule, in the priority oneOf, array with an item schema, object with     *)
(* own properties, leaf; an object gets no node of its own: its visible    *)
(* children stand in its place in the list, with paths extended by the     *)
(* object's key and required marks from the object's own required list.    *)
(* The list of the root level is compared with that classification, and    *)
(* the fields returned (schemas without groups) are the fields of that     *)
(* list.                                                                   *)
(***************************************************************************)
C16_Classification ==
    (Done /\ spec.groups = None) =>
        /\ [i \in 1..Len(AllFields) |-> ShapeOf(AllFields[i])]
              = ExpectedShape(spec.properties[1], <<>>, RequiredOf(spec.required))
        /\ IsPermutationOf(TopFields, AllFields)

\* An object with own properties was flattened: its child "port" is marked
\* required by the object's list although the root's list does not name it,
\* and its child "password", an object with a oneOf and own properties, is
\* a oneOf node.
C16_Witness ==
    /\ Done
    /\ spec.groups = None
    /\ spec.required = Some({"dbname", "password"})
    /\ \E i \in 1..Len(spec.properties[1]) :
          LET p == spec.properties[1][i].prop
          IN  /\ spec.properties[1][i].key = "dbname"
              /\ p.type = "object" /\ p.oneOf = None /\ p.properties # None
              /\ p.required = Some({"port"})
              /\ p.properties[1][2].prop.oneOf # None
              /\ p.properties[1][2].prop.properties # None
    /\ \A n \in Range(TopFields) : n.path # <<"dbname">>
    /\ \E n \in Range(TopFields) : n.path = <<"dbname", "port">> /\ n.required
    /\ \E n \in Range(TopFields) :
          n.path = <<"dbname", "password">> /\ IsOneOfNode(n) /\ ~n.required

(***************************************************************************)
(* C17: in the Flows list, whatever the interleaving of Run clicks and     *)
(* request completions on different deployments, the id of a deployment    *)
(* is in runningDeploymentIds from its Run click until its own quick-run   *)
(* request settles, and is no longer in it once that request has settled:  *)
(* at every moment the list holds the id of a deployment exactly when a    *)
(* request of that deployment is pending.                                  *)
(***************************************************************************)
C17_RunningWhilePending ==
    \A d \in Deployments :
        Includes(runningDeploymentIds, d) <=> inFlight[d] # None

====
